---- MODULE Spec2Model ----
(***************************************************************************)
(* Model of the Data Viewer screen, src/app/(tabs)/index.tsx.              *)
(*                                                                         *)
(* The screen keeps five pieces of React state (data, columns,             *)
(* searchQuery, sortConfig, loading) and has five handlers: pickFile (an   *)
(* async function with two awaits), processFile, handleSort,               *)
(* setSearchQuery and exportToCSV.  Every synchronous run of a handler     *)
(* between two awaits is one action.                                       *)
(*                                                                         *)
(* JavaScript values are tagged records; a string is a tuple of            *)
(* one-character strings, so that lower-casing, substring search, joining  *)
(* and splitting are computed and not assumed.                             *)
(***************************************************************************)
EXTENDS Integers, Sequences, FiniteSets, TLC

\* Number of pickFile invocations that can be suspended at the same time.
MaxInFlight == 2

Procs == 1..MaxInFlight

-----------------------------------------------------------------------------
(* JavaScript values *)

Undefined == [t |-> "undefined"]
Null == [t |-> "null"]
\* an empty slot of a sparse array: reading it gives undefined, and
\* some/map/forEach skip it
Hole == [t |-> "hole"]
Str(s) == [t |-> "string", s |-> s]
Num(n) == [t |-> "number", n |-> n]
Arr(a) == [t |-> "array", v |-> a]

\* a[i] on a JavaScript array: undefined outside the array and on a hole
At(a, i) ==
  IF i \in DOMAIN a /\ a[i] # Hole THEN a[i] ELSE Undefined

UpperLetters ==
  <<"A","B","C","D","E","F","G","H","I","J","K","L","M",
    "N","O","P","Q","R","S","T","U","V","W","X","Y","Z">>

LowerLetters ==
  <<"a","b","c","d","e","f","g","h","i","j","k","l","m",
    "n","o","p","q","r","s","t","u","v","w","x","y","z">>

DigitChars == <<"0","1","2","3","4","5","6","7","8","9">>

\* the lower-case letter of each upper-case letter
LowerOf ==
  [c \in {UpperLetters[k] : k \in DOMAIN UpperLetters} |->
     LowerLetters[CHOOSE k \in DOMAIN UpperLetters : UpperLetters[k] = c]]

IsUpper(c) == c \in DOMAIN LowerOf

LowerChar(c) == IF IsUpper(c) THEN LowerOf[c] ELSE c

\* String.prototype.toLowerCase
ToLowerCase(s) == [k \in DOMAIN s |-> LowerChar(s[k])]

\* String.prototype.includes
Includes(s, q) ==
  \E k \in 0..(Len(s) - Len(q)) : SubSeq(s, k + 1, k + Len(q)) = q

RECURSIVE NumberToString(_)
\* String(n) of a non-negative integer
NumberToString(n) ==
  IF n < 10
    THEN <<DigitChars[n + 1]>>
    ELSE NumberToString(n \div 10) \o <<DigitChars[(n % 10) + 1]>>

\* String(v)
String(v) ==
  CASE v.t = "string" -> v.s
    [] v.t = "number" -> NumberToString(v.n)
    [] v.t = "null" -> <<"n","u","l","l">>
    [] OTHER -> <<"u","n","d","e","f","i","n","e","d">>

\* the conversion Array.prototype.join applies to an element: undefined,
\* null and empty slots become the empty string
JoinString(v) ==
  IF v.t \in {"undefined", "null", "hole"} THEN <<>> ELSE String(v)

RECURSIVE Join(_, _)
\* Array.prototype.join on an array of values
Join(a, sep) ==
  IF a = <<>> THEN <<>>
  ELSE IF Len(a) = 1 THEN JoinString(a[1])
  ELSE JoinString(a[1]) \o sep \o Join(Tail(a), sep)

RECURSIVE JoinLines(_, _)
\* Array.prototype.join on an array of strings
JoinLines(a, sep) ==
  IF a = <<>> THEN <<>>
  ELSE IF Len(a) = 1 THEN a[1]
  ELSE a[1] \o sep \o JoinLines(Tail(a), sep)

-----------------------------------------------------------------------------
(* String.prototype.localeCompare, for digits and unaccented letters:      *)
(* first the letters without regard to case (digits before letters), then, *)
(* for strings that differ only in case, lower case first.                 *)

Collation == DigitChars \o LowerLetters

\* the place of each digit and lower-case letter in the collation order
WeightOf ==
  [c \in {Collation[k] : k \in DOMAIN Collation} |->
     CHOOSE k \in DOMAIN Collation : Collation[k] = c]

PrimaryWeight(c) ==
  IF LowerChar(c) \in DOMAIN WeightOf THEN WeightOf[LowerChar(c)] ELSE 0

CaseWeight(c) == IF IsUpper(c) THEN 1 ELSE 0

RECURSIVE LexCompare(_, _)
LexCompare(a, b) ==
  IF a = <<>> /\ b = <<>> THEN 0
  ELSE IF a = <<>> THEN -1
  ELSE IF b = <<>> THEN 1
  ELSE IF a[1] < b[1] THEN -1
  ELSE IF a[1] > b[1] THEN 1
  ELSE LexCompare(Tail(a), Tail(b))

LocaleCompare(s, u) ==
  LET p == LexCompare([k \in DOMAIN s |-> PrimaryWeight(s[k])],
                      [k \in DOMAIN u |-> PrimaryWeight(u[k])])
  IN  IF p # 0 THEN p
      ELSE LexCompare([k \in DOMAIN s |-> CaseWeight(s[k])],
                      [k \in DOMAIN u |-> CaseWeight(u[k])])

-----------------------------------------------------------------------------
(* The files the user can pick, and what the spreadsheet decoder returns   *)
(* for each: XLSX.utils.sheet_to_json(worksheet, {header: 1}) gives one    *)
(* array per sheet row, with an empty slot for an empty cell and an empty  *)
(* array for a blank row.                                                  *)

Files == {"people", "stock", "blank", "corrupt"}

\* XLSX.read throws on content it cannot interpret
Parseable(f) == f # "corrupt"

SheetToJson(f) ==
  CASE f = "people" ->
         << <<Str(<<"N","a","m","e">>), Str(<<"A","g","e">>)>>,
            <<Str(<<"N","e","d">>), Num(30)>>,
            <<Str(<<"B","o","b">>), Num(30)>> >>
    [] f = "stock" ->
         << <<Str(<<"N","a","m","e">>), Str(<<"Q","t","y">>)>>,
            <<Hole, Num(5)>>,
            <<>>,
            <<Str(<<"I","n","k">>), Num(13)>> >>
    [] OTHER -> <<>>

\* the texts the user types in the search box
Queries == { <<>>, <<"n","E">>, <<"3">> }

-----------------------------------------------------------------------------
VARIABLES
  data,          \* useState<any[][]>([])
  columns,       \* useState<string[]>([])
  searchQuery,   \* useState('')
  sortConfig,    \* useState({ key: null, direction: 'asc' })
  loading,       \* useState(false)
  pc,            \* where each pickFile invocation is suspended
  console,       \* the last message written by console.error
  exportedFile   \* content of documentDirectory + 'exported_data.csv'

vars ==
  <<data, columns, searchQuery, sortConfig, loading, pc, console,
    exportedFile>>

Init ==
  /\ data = <<>>
  /\ columns = Arr(<<>>)
  /\ searchQuery = <<>>
  /\ sortConfig = [key |-> Null, direction |-> "asc"]
  /\ loading = FALSE
  /\ pc = [i \in Procs |-> "idle"]
  /\ console = "none"
  /\ exportedFile = Undefined

-----------------------------------------------------------------------------
(* Rendering *)

\* RowMatches with the query compared as typed, not lower-cased
RowMatchesQueryAsTyped(row, q) ==
  \E k \in DOMAIN row :
    /\ row[k] # Hole
    /\ Includes(ToLowerCase(String(row[k])), q)

\* data.filter(row => row.some(cell => ...)): some skips empty slots
RowMatches(row, q) ==
  \E k \in DOMAIN row :
    /\ row[k] # Hole
    /\ Includes(ToLowerCase(String(row[k])), ToLowerCase(q))

filteredData == SelectSeq(data, LAMBDA row : RowMatches(row, searchQuery))

\* The table is rendered when loading is false; columns.map throws a
\* TypeError when columns is undefined, and React then unmounts the screen.
RenderThrows == ~loading /\ columns = Undefined

\* The system document picker is presented modally over the screen: nothing
\* on the screen can be pressed while a pickFile invocation waits for it.
PickerOpen == \E i \in Procs : pc[i] = "picking"

CanPress == ~RenderThrows /\ ~PickerOpen

-----------------------------------------------------------------------------
(* pickFile and processFile *)

\* ProcessFile with the table cleared before the content is decoded
ProcessFileClearsTable(f) ==
  IF ~Parseable(f)
    THEN [columns |-> Arr(<<>>), data |-> <<>>,
          console |-> "Error processing file:"]
    ELSE LET jsonData == SheetToJson(f)
         IN  [columns |-> IF jsonData = <<>> THEN Undefined
                          ELSE Arr(Head(jsonData)),
              data |-> IF jsonData = <<>> THEN <<>> ELSE Tail(jsonData),
              console |-> console]

\* ProcessFile with the header stored only while there is none
ProcessFileHeaderOnce(f) ==
  IF ~Parseable(f)
    THEN [columns |-> columns, data |-> data,
          console |-> "Error processing file:"]
    ELSE LET jsonData == SheetToJson(f)
         IN  [columns |-> IF columns # Arr(<<>>) THEN columns
                          ELSE IF jsonData = <<>> THEN Undefined
                          ELSE Arr(Head(jsonData)),
              data |-> IF jsonData = <<>> THEN <<>> ELSE Tail(jsonData),
              console |-> console]

\* processFile(content): the values it leaves in columns and data and the
\* message it logs.  XLSX.read throws before either setter is called;
\* otherwise headers = jsonData[0] (undefined when the sheet has no rows)
\* and rows = jsonData.slice(1).
ProcessFile(f) ==
  IF ~Parseable(f)
    THEN [columns |-> columns, data |-> data,
          console |-> "Error processing file:"]
    ELSE LET jsonData == SheetToJson(f)
         IN  [columns |-> IF jsonData = <<>> THEN Undefined
                          ELSE Arr(Head(jsonData)),
              data |-> IF jsonData = <<>> THEN <<>> ELSE Tail(jsonData),
              console |-> console]

\* LoadingAfter with setLoading(false) at the end of the try block instead
\* of in a finally block
LoadingAfterTryOnly(outcome) ==
  IF outcome = "rejected" THEN loading ELSE FALSE

\* the finally block of pickFile: setLoading(false), however the try block
\* ended ("canceled", "rejected" or "processed")
LoadingAfter(outcome) == FALSE

\* state setters of an unmounted component are ignored
Mounted == ~RenderThrows

\* onPress of the upload button: pickFile runs up to its first await.  The
\* button is not disabled while loading.
PickFile(i) ==
  /\ CanPress
  /\ pc[i] = "idle"
  /\ \A j \in Procs : j < i => pc[j] # "idle"
  /\ loading' = TRUE
  /\ pc' = [pc EXCEPT ![i] = "picking"]
  /\ UNCHANGED <<data, columns, searchQuery, sortConfig, console,
                 exportedFile>>

\* getDocumentAsync resolves with result.canceled: only finally runs
PickerCanceled(i) ==
  /\ pc[i] = "picking"
  /\ loading' = IF Mounted THEN LoadingAfter("canceled") ELSE loading
  /\ pc' = [pc EXCEPT ![i] = "idle"]
  /\ UNCHANGED <<data, columns, searchQuery, sortConfig, console,
                 exportedFile>>

\* getDocumentAsync rejects: catch logs, finally runs
PickerRejects(i) ==
  /\ pc[i] = "picking"
  /\ console' = "Error picking file:"
  /\ loading' = IF Mounted THEN LoadingAfter("rejected") ELSE loading
  /\ pc' = [pc EXCEPT ![i] = "idle"]
  /\ UNCHANGED <<data, columns, searchQuery, sortConfig, exportedFile>>

\* getDocumentAsync resolves with a file: pickFile runs up to its second
\* await, FileSystem.readAsStringAsync
PickerResolves(i) ==
  /\ pc[i] = "picking"
  /\ pc' = [pc EXCEPT ![i] = "reading"]
  /\ UNCHANGED <<data, columns, searchQuery, sortConfig, loading, console,
                 exportedFile>>

\* readAsStringAsync rejects: catch logs, finally runs
ReadRejects(i) ==
  /\ pc[i] = "reading"
  /\ console' = "Error picking file:"
  /\ loading' = IF Mounted THEN LoadingAfter("rejected") ELSE loading
  /\ pc' = [pc EXCEPT ![i] = "idle"]
  /\ UNCHANGED <<data, columns, searchQuery, sortConfig, exportedFile>>

\* readAsStringAsync resolves with the content of the file f:
\* processFile(fileContent), then finally
ReadResolves(i, f) ==
  /\ pc[i] = "reading"
  /\ LET r == ProcessFile(f)
     IN  /\ columns' = IF Mounted THEN r.columns ELSE columns
         /\ data' = IF Mounted THEN r.data ELSE data
         /\ console' = r.console
  /\ loading' = IF Mounted THEN LoadingAfter("processed") ELSE loading
  /\ pc' = [pc EXCEPT ![i] = "idle"]
  /\ UNCHANGED <<searchQuery, sortConfig, exportedFile>>

-----------------------------------------------------------------------------
(* handleSort *)

\* Array.prototype.indexOf, counted from 1; 0 when the value is absent
IndexOf(a, v) ==
  IF \E k \in DOMAIN a : a[k] = v
    THEN CHOOSE k \in DOMAIN a : a[k] = v /\ \A j \in 1..(k - 1) : a[j] # v
    ELSE 0

\* NextDirection without the test on the column
NextDirectionAnyKey(key) ==
  IF sortConfig.direction = "asc" THEN "desc" ELSE "asc"

\* the direction handleSort chooses for a press on the column `key`
NextDirection(key) ==
  IF sortConfig.key = key /\ sortConfig.direction = "asc"
    THEN "desc" ELSE "asc"

\* the comparator handleSort passes to sort: its sign
Compare(a, b, idx, direction) ==
  LET aValue == At(a, idx)
      bValue == At(b, idx)
  IN  IF aValue.t = "number" /\ bValue.t = "number"
        THEN IF direction = "asc" THEN aValue.n - bValue.n
             ELSE bValue.n - aValue.n
        ELSE IF direction = "asc"
               THEN LocaleCompare(String(aValue), String(bValue))
               ELSE LocaleCompare(String(bValue), String(aValue))

RECURSIVE InsertSortedBeforeEqual(_, _, _, _)
\* InsertSorted of a sort that is not stable: x goes in front of the
\* elements it compares equal to
InsertSortedBeforeEqual(s, x, idx, direction) ==
  IF s = <<>> THEN <<x>>
  ELSE IF Compare(s[Len(s)], x, idx, direction) >= 0
    THEN Append(InsertSortedBeforeEqual(SubSeq(s, 1, Len(s) - 1), x, idx,
                                        direction),
                s[Len(s)])
    ELSE Append(s, x)

RECURSIVE InsertSorted(_, _, _, _)
\* x put into the sorted array s behind every element that does not sort
\* after it
InsertSorted(s, x, idx, direction) ==
  IF s = <<>> THEN <<x>>
  ELSE IF Compare(s[Len(s)], x, idx, direction) > 0
    THEN Append(InsertSorted(SubSeq(s, 1, Len(s) - 1), x, idx, direction),
                s[Len(s)])
    ELSE Append(s, x)

RECURSIVE SortRows(_, _, _)
\* Array.prototype.sort, which is stable, with the comparator of handleSort
SortRows(a, idx, direction) ==
  IF a = <<>> THEN <<>>
  ELSE InsertSorted(SortRows(SubSeq(a, 1, Len(a) - 1), idx, direction),
                    a[Len(a)], idx, direction)

\* the titles rendered by columns.map, which skips empty slots
Titles ==
  IF columns = Undefined THEN {}
  ELSE {columns.v[k] : k \in {j \in DOMAIN columns.v : columns.v[j] # Hole}}

\* onPress of a column title; the table is rendered only when not loading
HandleSort(key) ==
  /\ CanPress
  /\ ~loading
  /\ key \in Titles
  /\ sortConfig' = [key |-> key, direction |-> NextDirection(key)]
  /\ data' = SortRows(data, IndexOf(columns.v, key), NextDirection(key))
  /\ UNCHANGED <<columns, searchQuery, loading, pc, console, exportedFile>>

-----------------------------------------------------------------------------
(* search box and export *)

\* onChangeText of the search box, editable when data.length > 0
SetSearchQuery(q) ==
  /\ CanPress
  /\ data # <<>>
  /\ searchQuery' = q
  /\ UNCHANGED <<data, columns, sortConfig, loading, pc, console,
                 exportedFile>>

\* CsvContent built from data instead of filteredData
CsvContentAllRows ==
  JoinLines(<<Join(columns.v, <<",">>)>> \o
              [k \in DOMAIN data |-> Join(data[k], <<",">>)],
            <<"\n">>)

\* [columns.join(','), ...filteredData.map(row => row.join(','))].join('\n')
CsvContent ==
  JoinLines(<<Join(columns.v, <<",">>)>> \o
              [k \in DOMAIN filteredData |-> Join(filteredData[k], <<",">>)],
            <<"\n">>)

\* onPress of the export button, disabled when data.length === 0.  The
\* write or the share may reject; the catch logs.
ExportToCSV(outcome) ==
  /\ CanPress
  /\ data # <<>>
  /\ UNCHANGED <<data, columns, searchQuery, sortConfig, loading, pc>>
  /\ console' = IF outcome = "shared" THEN console
                ELSE "Error exporting CSV:"
  /\ exportedFile' = IF outcome = "writeRejected" THEN exportedFile
                     ELSE Str(CsvContent)

-----------------------------------------------------------------------------
Next ==
  \/ \E i \in Procs : PickFile(i)
  \/ \E i \in Procs : PickerCanceled(i)
  \/ \E i \in Procs : PickerRejects(i)
  \/ \E i \in Procs : PickerResolves(i)
  \/ \E i \in Procs : ReadRejects(i)
  \/ \E i \in Procs, f \in Files : ReadResolves(i, f)
  \/ \E key \in Titles : HandleSort(key)
  \/ \E q \in Queries : SetSearchQuery(q)
  \/ \E outcome \in {"shared", "shareRejected", "writeRejected"} :
       ExportToCSV(outcome)

Spec == Init /\ [][Next]_vars

\* The platform calls return: a pending getDocumentAsync or
\* readAsStringAsync eventually resolves or rejects.
PickerReturns(i) == PickerCanceled(i) \/ PickerRejects(i) \/ PickerResolves(i)

ReadReturns(i) == ReadRejects(i) \/ \E f \in Files : ReadResolves(i, f)

LiveSpec ==
  /\ Init
  /\ [][Next]_vars
  /\ \A i \in Procs : WF_vars(PickerReturns(i)) /\ WF_vars(ReadReturns(i))

-----------------------------------------------------------------------------
(* Vocabulary of the properties *)

\* number of pickFile invocations suspended at an await
InFlight == Cardinality({i \in Procs : pc[i] # "idle"})

Opposite(direction) == IF direction = "asc" THEN "desc" ELSE "asc"

\* the rows of the file f as the decoder returned them
Headers(f) ==
  IF SheetToJson(f) = <<>> THEN Undefined ELSE Arr(Head(SheetToJson(f)))

Body(f) == IF SheetToJson(f) = <<>> THEN <<>> ELSE Tail(SheetToJson(f))

\* a and b hold the same rows, each as often
SameRows(a, b) ==
  /\ Len(a) = Len(b)
  /\ \A k \in DOMAIN b :
       Cardinality({j \in DOMAIN a : a[j] = b[k]}) =
       Cardinality({j \in DOMAIN b : b[j] = b[k]})

\* position of a row in an array of distinct rows
PosIn(a, row) == CHOOSE k \in DOMAIN a : a[k] = row

\* c and d are the same character up to case
SameLetter(c, d) ==
  \/ c = d
  \/ \E n \in DOMAIN UpperLetters :
       {c, d} = {UpperLetters[n], LowerLetters[n]}

\* the string form of the cell contains q, case-insensitively
CellContains(cell, q) ==
  LET text == String(cell)
  IN  \E off \in 0..(Len(text) - Len(q)) :
        \A k \in 1..Len(q) : SameLetter(text[off + k], q[k])

\* indices of the rows of data with at least one matching cell
Kept ==
  {k \in DOMAIN data :
     \E j \in DOMAIN data[k] :
       data[k][j] # Hole /\ CellContains(data[k][j], searchQuery)}

RECURSIVE SplitOn(_, _)
\* String.prototype.split on a one-character separator
SplitOn(s, c) ==
  IF \A k \in DOMAIN s : s[k] # c THEN <<s>>
  ELSE LET k == CHOOSE k \in DOMAIN s :
                  s[k] = c /\ \A j \in 1..(k - 1) : s[j] # c
       IN  <<SubSeq(s, 1, k - 1)>> \o SplitOn(SubSeq(s, k + 1, Len(s)), c)

\* the exported text split on newline, each line split on comma
Reparse(text) ==
  LET lines == SplitOn(text, "\n")
  IN  [k \in DOMAIN lines |-> SplitOn(lines[k], ",")]

\* the cells of an array that are there (not empty slots)
Cells(a) == SelectSeq(a, LAMBDA v : v # Hole)

\* the string forms of the cells of a row
CellStrings(a) == [k \in DOMAIN Cells(a) |-> String(Cells(a)[k])]

\* one field per slot of a row: the string form of the cell, and the empty
\* string for an empty slot or an undefined or null cell
FieldStrings(a) ==
  [k \in DOMAIN a |->
     IF a[k].t \in {"hole", "undefined", "null"} THEN <<>> ELSE String(a[k])]

-----------------------------------------------------------------------------
(* Properties *)

\* C1: every load that stores new columns and rows resets the filter to
\* the empty string and the sort state to "no active sort": right after
\* it, searchQuery = '' and sortConfig.key = null.
C1_LoadResetsFilterAndSort ==
  [][\A i \in Procs, f \in Files :
       (ReadResolves(i, f) /\ Parseable(f) /\ Mounted /\ InFlight = 1)
         => (searchQuery' = <<>> /\ sortConfig'.key = Null)]_vars

\* C2: at most one pickFile invocation is suspended at an await at any
\* time.
C2_SingleFlight == InFlight <= 1

\* C3: a load that does not succeed (picker cancelled, picker or read
\* rejected, decoder threw) leaves columns and data as they were: none of
\* its steps, from the press to the catch, writes them; the exception is
\* caught, the invocation ends and the screen keeps running.
C3_FailedLoadKeepsDataset ==
  [][\A i \in Procs :
       LET fails == \/ PickerCanceled(i)
                    \/ PickerRejects(i)
                    \/ ReadRejects(i)
                    \/ \E f \in Files : ReadResolves(i, f) /\ ~Parseable(f)
       IN  /\ (PickFile(i) \/ PickerResolves(i) \/ fails)
                => (columns' = columns /\ data' = data)
           /\ fails => (pc'[i] = "idle" /\ (Mounted => Mounted'))]_vars

\* a decoder failure has been logged while a loaded table with an active
\* sort is on screen
C3_Witness ==
  /\ console = "Error processing file:"
  /\ columns = Headers("people")
  /\ data # <<>>
  /\ sortConfig.key # Null
  /\ InFlight = 0

\* C4: the busy flag is cleared when a load ends: every pickFile
\* invocation that has started eventually ends, and loading is false when
\* it has ended, whether it succeeded, was cancelled or failed.
C4_LoadingCleared ==
  \A i \in Procs : (pc[i] # "idle") ~> (pc[i] = "idle" /\ ~loading)

\* a load has ended in the catch block and the flag is down
C4_Witness ==
  /\ console = "Error picking file:"
  /\ InFlight = 0
  /\ ~loading

\* C5: the projection holds exactly the rows of data with at least one
\* cell whose string form contains the query case-insensitively, in the
\* order they have in data.
C5_ProjectionIsFilter ==
  /\ Len(filteredData) = Cardinality(Kept)
  /\ \A n \in DOMAIN filteredData :
       \E k \in Kept :
         /\ Cardinality({j \in Kept : j <= k}) = n
         /\ filteredData[n] = data[k]

\* the query "nE" keeps the row of Ned and drops the row of Bob
C5_Witness ==
  /\ searchQuery = <<"n","E">>
  /\ Len(data) = 2
  /\ filteredData = << <<Str(<<"N","e","d">>), Num(30)>> >>

\* C6: after handleSort(c) the active sort column is c, and the direction
\* is the opposite of the previous one if c was already the active column
\* and ascending otherwise.
C6_SortToggle ==
  [][\A key \in Titles :
       HandleSort(key)
         => /\ sortConfig'.key = key
            /\ sortConfig'.direction =
                 IF sortConfig.key = key THEN Opposite(sortConfig.direction)
                 ELSE "asc"]_vars

\* a second press on Age has turned the direction to descending
C6_Witness ==
  /\ sortConfig = [key |-> Str(<<"A","g","e">>), direction |-> "desc"]
  /\ columns = Headers("people")

\* the file whose header and rows are on screen
Loaded(f) ==
  /\ Parseable(f)
  /\ columns = Headers(f)
  /\ SameRows(data, Body(f))

\* C7 as stated: two rows of the projection whose cells in the active sort
\* column compare equal are in the relative order they have in the loaded
\* file.
C7_TiesInLoadedOrder ==
  \A f \in Files :
    (Loaded(f) /\ sortConfig.key \in Titles)
      => \A m, n \in DOMAIN filteredData :
           (/\ m < n
            /\ Compare(filteredData[m], filteredData[n],
                       IndexOf(columns.v, sortConfig.key),
                       sortConfig.direction) = 0)
             => PosIn(Body(f), filteredData[m]) < PosIn(Body(f), filteredData[n])

\* C7: handleSort sorts the rows as they stand in data, which may be the
\* result of an earlier sort: two rows whose cells in the sort column
\* compare equal are, in the projection after the sort, in the relative
\* order they had in data just before it.
C7_TiesKeepCurrentOrder ==
  [][\A key \in Titles :
       HandleSort(key)
         => LET projection == filteredData'
            IN  \A m, n \in DOMAIN data :
                  (/\ m < n
                   /\ Compare(data[m], data[n], IndexOf(columns.v, key),
                              NextDirection(key)) = 0
                   /\ \E k \in DOMAIN projection : projection[k] = data[m]
                   /\ \E k \in DOMAIN projection : projection[k] = data[n])
                    => PosIn(projection, data[m]) < PosIn(projection, data[n])]_vars

\* sorted by Name and then by Age: Bob and Ned tie on Age and stay in the
\* order of the sort by Name, the reverse of the order in the file
C7_Witness ==
  /\ sortConfig.key = Str(<<"A","g","e">>)
  /\ data = << <<Str(<<"B","o","b">>), Num(30)>>,
               <<Str(<<"N","e","d">>), Num(30)>> >>
  /\ filteredData = data

\* C8: loading a file whose sheet has no rows does not fail and leaves
\* columns equal to the empty list and data equal to the empty list.
C8_BlankFileLoadsEmpty ==
  [][\A i \in Procs :
       (ReadResolves(i, "blank") /\ Mounted /\ InFlight = 1)
         => (columns' = Arr(<<>>) /\ data' = <<>> /\ ~RenderThrows')]_vars

\* C9 as stated: the exported text, split on newline and then on comma,
\* gives the column names and then, line by line, the string forms of the
\* cells of the rows of the projection, nothing added or dropped.
C9_ExportRoundTrip ==
  [][\A outcome \in {"shared", "shareRejected"} :
       ExportToCSV(outcome)
         => Reparse(exportedFile'.s) =
              <<CellStrings(columns.v)>> \o
                [k \in DOMAIN filteredData |-> CellStrings(filteredData[k])]]_vars

\* C9: the exported text, split on newline and then on comma, gives one
\* field per slot of the header and of each row of the projection: the
\* string form of the cell, and the empty string where the cell is missing.
C9_ExportRoundTripByPosition ==
  [][\A outcome \in {"shared", "shareRejected"} :
       ExportToCSV(outcome)
         => Reparse(exportedFile'.s) =
              <<FieldStrings(columns.v)>> \o
                [k \in DOMAIN filteredData |-> FieldStrings(filteredData[k])]]_vars

\* the stock file exported after a descending sort by Qty: the blank row is
\* filtered out and the missing Name of the second row is an empty field
C9_Witness ==
  exportedFile =
    Str(<<"N","a","m","e",",","Q","t","y","\n",
          "I","n","k",",","1","3","\n",
          ",","5">>)

\* C10: columns and data come from one and the same processFile call: the
\* header of some file with a permutation of the rows of that same file,
\* or the empty table the screen starts with.
C10_SameLoad ==
  \/ columns = Arr(<<>>) /\ data = <<>>
  \/ \E f \in Files : Loaded(f)

\* the rows of the stock file, sorted, under the header of the stock file
\* while another load is still reading
C10_Witness ==
  /\ columns = Headers("stock")
  /\ data # Body("stock")
  /\ \E i \in Procs : pc[i] = "reading"

====
